---- MODULE Spec2Model ----
(***************************************************************************)
(* Network-File-Share: an HTTP file server (R1_EN.go).  One root handler   *)
(* maps a request path onto a directory tree, lists directories and        *)
(* streams files.  Go strings are modelled as sequences of one-character   *)
(* strings, so that trimming, cleaning, joining and escaping are computed  *)
(* character by character as the library routines compute them.            *)
(***************************************************************************)
EXTENDS Naturals, Integers, Sequences, FiniteSets, TLC

\* ------------------------------------------------------------------ bounds
\* most ".." elements at the front of a request path a client types
MaxUp == 1
\* largest size, in bytes, the served file takes
MaxSize == 1

\* ------------------------------------------------------------ characters
\* ASCII code of the characters the model uses
Code(c) ==
    CASE c = "\"" -> 34 [] c = "#" -> 35 [] c = "%" -> 37 [] c = "&" -> 38
      [] c = "'" -> 39  [] c = "+" -> 43 [] c = "." -> 46 [] c = "/" -> 47
      [] c = "0" -> 48  [] c = "1" -> 49 [] c = "2" -> 50 [] c = "3" -> 51
      [] c = "4" -> 52  [] c = "5" -> 53 [] c = "6" -> 54 [] c = "7" -> 55
      [] c = "8" -> 56  [] c = "9" -> 57 [] c = ":" -> 58 [] c = ";" -> 59
      [] c = "<" -> 60  [] c = ">" -> 62 [] c = "?" -> 63
      [] c = "A" -> 65  [] c = "B" -> 66 [] c = "C" -> 67 [] c = "D" -> 68
      [] c = "E" -> 69  [] c = "F" -> 70 [] c = "Z" -> 90
      [] c = "a" -> 97  [] c = "b" -> 98 [] c = "c" -> 99 [] c = "d" -> 100
      [] c = "e" -> 101 [] c = "f" -> 102 [] c = "g" -> 103 [] c = "l" -> 108
      [] c = "m" -> 109 [] c = "o" -> 111 [] c = "p" -> 112 [] c = "s" -> 115
      [] c = "t" -> 116

Chars ==
    { "\"", "#", "%", "&", "'", "+", ".", "/", "0", "1", "2", "3", "4", "5",
      "6", "7", "8", "9", ":", ";", "<", ">", "?", "A", "B", "C", "D", "E",
      "F", "Z", "a", "b", "c", "d", "e", "f", "g", "l", "m", "o", "p", "s",
      "t" }

Chr(n) == CHOOSE c \in Chars : Code(c) = n

IsAlnum(c) ==
    LET n == Code(c)
    IN  (n >= 48 /\ n <= 57) \/ (n >= 65 /\ n <= 90) \/ (n >= 97 /\ n <= 122)

UpperHex == <<"0", "1", "2", "3", "4", "5", "6", "7", "8", "9",
              "A", "B", "C", "D", "E", "F">>

IsHex(c) ==
    LET n == Code(c)
    IN  (n >= 48 /\ n <= 57) \/ (n >= 65 /\ n <= 70) \/ (n >= 97 /\ n <= 102)

UnHex(c) ==
    LET n == Code(c)
    IN  IF n >= 97 THEN n - 97 + 10 ELSE IF n >= 65 THEN n - 65 + 10 ELSE n - 48

\* ---------------------------------------------------------------- strings
\* The string routines are functions: a function is applied to the value of
\* its argument, as a Go call is.
Str == Seq(Chars)
StrSeq == Seq(Str)

HasPrefix(s, p) == Len(s) >= Len(p) /\ SubSeq(s, 1, Len(p)) = p

\* strings.TrimPrefix
TrimPrefix(s, p) == IF HasPrefix(s, p) THEN SubSeq(s, Len(p) + 1, Len(s)) ELSE s

\* character c put in front of the split string r
SplitCons[c \in Chars, r \in StrSeq] ==
    IF c = "/" THEN <<<<>>>> \o r ELSE <<<<c>> \o r[1]>> \o Tail(r)

\* the elements of a path between its separators
Split[s \in Str] ==
    IF s = <<>> THEN <<<<>>>> ELSE SplitCons[Head(s), Split[Tail(s)]]

JoinSegs[segs \in StrSeq] ==
    IF segs = <<>> THEN <<>>
    ELSE IF Len(segs) = 1 THEN segs[1]
    ELSE segs[1] \o <<"/">> \o JoinSegs[Tail(segs)]

\* index of the last separator of s, 0 when it has none
LastSlash[s \in Str] ==
    IF \A i \in 1..Len(s) : s[i] # "/" THEN 0
    ELSE CHOOSE i \in 1..Len(s) : s[i] = "/" /\ \A j \in (i + 1)..Len(s) : s[j] # "/"

\* ------------------------------------------------------------ path/filepath
Dot == <<".">>
DotDot == <<".", ".">>

\* the elements Clean keeps, processing segs left to right onto out
CleanAcc[segs \in StrSeq, rooted \in BOOLEAN, out \in StrSeq] ==
    IF segs = <<>> THEN out
    ELSE IF Head(segs) = <<>> \/ Head(segs) = Dot
         THEN CleanAcc[Tail(segs), rooted, out]
    ELSE IF Head(segs) = DotDot
         THEN IF out # <<>> /\ out[Len(out)] # DotDot
              THEN CleanAcc[Tail(segs), rooted, SubSeq(out, 1, Len(out) - 1)]
              ELSE IF rooted THEN CleanAcc[Tail(segs), rooted, out]
              ELSE CleanAcc[Tail(segs), rooted, Append(out, DotDot)]
    ELSE CleanAcc[Tail(segs), rooted, Append(out, Head(segs))]

\* the cleaned body put after the root, or alone
CleanResult[rooted \in BOOLEAN, body \in Str] ==
    IF rooted THEN <<"/">> \o body
    ELSE IF body = <<>> THEN Dot ELSE body

\* filepath.Clean: the shortest equivalent path, by lexical processing alone
Clean[p \in Str] ==
    IF p = <<>> THEN Dot
    ELSE CleanResult[p[1] = "/", JoinSegs[CleanAcc[Split[p], p[1] = "/", <<>>]]]

\* filepath.Join of two elements
Join[a \in Str, b \in Str] ==
    IF a # <<>> THEN Clean[a \o <<"/">> \o b]
    ELSE IF b # <<>> THEN Clean[b]
    ELSE <<>>

\* filepath.Dir
Dir[p \in Str] == Clean[SubSeq(p, 1, LastSlash[p])]

\* the path separator of the build (a Unix build)
Separator == "/"

\* filepath.ToSlash
ToSlash[p \in Str] == [i \in DOMAIN p |-> IF p[i] = Separator THEN "/" ELSE p[i]]

\* ----------------------------------------------------------------- net/url
EscapeByte(c, digits) ==
    <<"%", digits[(Code(c) \div 16) + 1], digits[(Code(c) % 16) + 1]>>

\* url.shouldEscape in encodePathSegment mode
ShouldEscapeSegment(c) ==
    IF c \in {"-", "_", ".", "~"} THEN FALSE
    ELSE IF c \in {"$", "&", "+", ",", "/", ":", ";", "=", "?", "@"}
         THEN c \in {"/", ";", ",", "?"}
    ELSE ~IsAlnum(c)

\* url.PathEscape: the string as ONE path segment, "/" becoming %2F
PathEscape[s \in Str] ==
    IF s = <<>> THEN <<>>
    ELSE (IF ShouldEscapeSegment(Head(s)) THEN EscapeByte(Head(s), UpperHex)
          ELSE <<Head(s)>>) \o PathEscape[Tail(s)]

\* url.shouldEscape in encodePath mode
ShouldEscapePath(c) ==
    IF c \in {"-", "_", ".", "~"} THEN FALSE
    ELSE IF c \in {"$", "&", "+", ",", "/", ":", ";", "=", "?", "@"}
         THEN c = "?"
    ELSE ~IsAlnum(c)

\* url.escape in encodePath mode
EscapePath[s \in Str] ==
    IF s = <<>> THEN <<>>
    ELSE (IF ShouldEscapePath(Head(s)) THEN EscapeByte(Head(s), UpperHex)
          ELSE <<Head(s)>>) \o EscapePath[Tail(s)]

\* the result of url.unescape on a "%" that two hex digits do not follow
EscapeError == <<"EscapeError">>

\* every "%" of s is followed by two hex digits
ValidEscapes[s \in Str] ==
    IF s = <<>> THEN TRUE
    ELSE IF s[1] = "%"
         THEN Len(s) >= 3 /\ IsHex(s[2]) /\ IsHex(s[3])
                /\ ValidEscapes[SubSeq(s, 4, Len(s))]
    ELSE ValidEscapes[Tail(s)]

\* the bytes of a string whose escapes are valid
Decode[s \in Str] ==
    IF s = <<>> THEN <<>>
    ELSE IF s[1] = "%" /\ Len(s) >= 3
         THEN <<Chr(16 * UnHex(s[2]) + UnHex(s[3]))>>
                  \o Decode[SubSeq(s, 4, Len(s))]
    ELSE <<s[1]>> \o Decode[Tail(s)]

\* the decoding net/url applies to a request target to produce URL.Path: an
\* invalid escape is an error and the request is rejected
PathUnescape[s \in Str] ==
    IF ValidEscapes[s] THEN Decode[s] ELSE EscapeError

\* url.validEncoded in encodePath mode
ValidEncoded(s) ==
    \A i \in DOMAIN s :
        \/ s[i] \in {"!", "$", "&", "'", "(", ")", "*", "+", ",", ";", "=", ":",
                     "@", "[", "]", "%"}
        \/ ~ShouldEscapePath(s[i])

\* URL.EscapedPath of a request whose target is raw and whose URL.Path is path:
\* the target as it was sent when it is a valid encoding of the path
EscapedPath(raw, path) ==
    IF raw = EscapePath[path] \/ ValidEncoded(raw) THEN raw ELSE EscapePath[path]

\* -------------------------------------------------------- html, html/template
Amp == <<"&", "a", "m", "p", ";">>
Lt == <<"&", "l", "t", ";">>
Gt == <<"&", "g", "t", ";">>
Quot == <<"&", "#", "3", "4", ";">>
Apos == <<"&", "#", "3", "9", ";">>
Plus == <<"&", "#", "4", "3", ";">>

\* html.EscapeString
EscapeString[s \in Str] ==
    IF s = <<>> THEN <<>>
    ELSE (CASE Head(s) = "&" -> Amp [] Head(s) = "<" -> Lt [] Head(s) = ">" -> Gt
            [] Head(s) = "\"" -> Quot [] Head(s) = "'" -> Apos
            [] OTHER -> <<Head(s)>>)
         \o EscapeString[Tail(s)]

\* html/template's escaper for a string value in text or in a quoted attribute
HtmlEscaper[s \in Str] ==
    IF s = <<>> THEN <<>>
    ELSE (CASE Head(s) = "&" -> Amp [] Head(s) = "<" -> Lt [] Head(s) = ">" -> Gt
            [] Head(s) = "\"" -> Quot [] Head(s) = "'" -> Apos
            [] Head(s) = "+" -> Plus [] OTHER -> <<Head(s)>>)
         \o HtmlEscaper[Tail(s)]

FilterFailsafe == <<"#", "Z", "g", "o", "t", "m", "p", "l", "Z">>

SafeProtocols ==
    { <<"h", "t", "t", "p">>, <<"h", "t", "t", "p", "s">>,
      <<"m", "a", "i", "l", "t", "o">> }

\* the text of s before its first ":", s itself when it has none
BeforeColon[s \in Str] ==
    IF s = <<>> \/ Head(s) = ":" THEN <<>> ELSE <<Head(s)>> \o BeforeColon[Tail(s)]

\* html/template's urlFilter: a value with an unsafe scheme is replaced
UrlFilter[s \in Str] ==
    IF /\ \E i \in 1..Len(s) : s[i] = ":"
       /\ \A i \in 1..Len(BeforeColon[s]) : s[i] # "/"
       /\ BeforeColon[s] \notin SafeProtocols
    THEN FilterFailsafe
    ELSE s

LowerHex == <<"0", "1", "2", "3", "4", "5", "6", "7", "8", "9",
              "a", "b", "c", "d", "e", "f">>

\* whether urlNormalizer leaves the first character of s as it is
NormalizerKeeps(s) ==
    \/ Head(s) \in {"!", "#", "$", "&", "*", "+", ",", "/", ":", ";",
                   "=", "?", "@", "[", "]", "-", ".", "_", "~"}
    \/ (Head(s) = "%" /\ Len(s) >= 3 /\ IsHex(s[2]) /\ IsHex(s[3]))
    \/ (Head(s) # "%" /\ IsAlnum(Head(s)))

\* html/template's urlNormalizer: existing escapes and reserved characters stay
UrlNormalizer[s \in Str] ==
    IF s = <<>> THEN <<>>
    ELSE (IF NormalizerKeeps(s) THEN <<Head(s)>> ELSE EscapeByte(Head(s), LowerHex))
         \o UrlNormalizer[Tail(s)]

\* what the template writes for href="{{.URL}}" and href="{{.ParentPath}}"
HrefAttr[u \in Str] == HtmlEscaper[UrlNormalizer[UrlFilter[u]]]

\* what the template writes for {{.Name}} inside <dir> and <file>
TextNode[s \in Str] == HtmlEscaper[s]

Entities == << <<Amp, "&">>, <<Lt, "<">>, <<Gt, ">">>, <<Quot, "\"">>,
               <<Apos, "'">>, <<Plus, "+">> >>

\* the character-reference decoding a client applies to text and attributes
HtmlUnescape[s \in Str] ==
    IF s = <<>> THEN <<>>
    ELSE IF \E k \in DOMAIN Entities : HasPrefix(s, Entities[k][1])
         THEN <<Entities[CHOOSE k \in DOMAIN Entities :
                             HasPrefix(s, Entities[k][1])][2]>>
              \o HtmlUnescape[SubSeq(s,
                   Len(Entities[CHOOSE k \in DOMAIN Entities :
                                    HasPrefix(s, Entities[k][1])][1]) + 1, Len(s))]
    ELSE <<Head(s)>> \o HtmlUnescape[Tail(s)]

\* ------------------------------------------------------------------ client
\* RFC 3986 5.2.4 on the segments after the leading "/"
RemoveDotSegments[segs \in StrSeq, out \in StrSeq] ==
    IF segs = <<>> THEN out
    ELSE IF Head(segs) = Dot
         THEN RemoveDotSegments[Tail(segs),
                                IF Len(segs) = 1 THEN Append(out, <<>>) ELSE out]
    ELSE IF Head(segs) = DotDot
         THEN RemoveDotSegments[Tail(segs),
                 (IF out = <<>> THEN out ELSE SubSeq(out, 1, Len(out) - 1))
                   \o (IF Len(segs) = 1 THEN <<<<>>>> ELSE <<>>)]
    ELSE RemoveDotSegments[Tail(segs), Append(out, Head(segs))]

\* the reference merged with the base path
Merge[base \in Str, ref \in Str] ==
    IF ref = <<>> THEN base
    ELSE IF ref[1] = "/" THEN ref
    ELSE SubSeq(base, 1, LastSlash[base]) \o ref

\* RFC 3986 5.2.2: a relative reference resolved against the page's URL path
ResolveReference[base \in Str, ref \in Str] ==
    <<"/">> \o JoinSegs[RemoveDotSegments[Tail(Split[Merge[base, ref]]), <<>>]]

\* ---------------------------------------------------------------- net/http
\* the canonical path with the trailing slash of q kept
KeepSlash[q \in Str, np \in Str] ==
    IF q[Len(q)] = "/" /\ np # <<"/">> THEN np \o <<"/">> ELSE np

\* ServeMux.cleanPath: the canonical path, keeping a trailing slash
CleanPath[p \in Str] ==
    IF p = <<>> THEN <<"/">>
    ELSE IF p[1] # "/" THEN KeepSlash[<<"/">> \o p, Clean[<<"/">> \o p]]
    ELSE KeepSlash[p, Clean[p]]

\* ------------------------------------------------------------- file system
\* The tree the server runs on: "/s" is the shared directory, "/l" a symbolic
\* link to it, "/&" a file outside it, "/s/a/&" the file other programs rewrite.
P_Root == <<"/">>
P_Secret == <<"/", "&">>
P_Link == <<"/", "l">>
P_Share == <<"/", "s">>
P_Sub == <<"/", "s", "/", "a">>
P_File == <<"/", "s", "/", "a", "/", "&">>

FsPaths == {P_Root, P_Secret, P_Link, P_Share, P_Sub, P_File}

DirEnt == [kind |-> "dir", size |-> 0, target |-> <<>>]
FileEnt(n) == [kind |-> "file", size |-> n, target |-> <<>>]
LinkEnt(t) == [kind |-> "link", size |-> 0, target |-> t]
\* an unlinked file: no name reaches it, open handles still read it
GoneEnt(n) == [kind |-> "gone", size |-> n, target |-> <<>>]

InitFs ==
    [p \in FsPaths |->
        CASE p = P_Secret -> FileEnt(1)
          [] p = P_Link -> LinkEnt(P_Share)
          [] p = P_File -> FileEnt(MaxSize)
          [] OTHER -> DirEnt]

\* the values an entry of the tree takes
EntSet ==
    {DirEnt, LinkEnt(P_Share)}
      \cup {FileEnt(n) : n \in 0..MaxSize} \cup {GoneEnt(n) : n \in 0..MaxSize}

FsType == [FsPaths -> EntSet]

Missing == <<>>

\* name resolution from entry cur along segs, following symbolic links
Walk[f \in FsType, cur \in Str, segs \in StrSeq] ==
    IF cur \notin DOMAIN f THEN Missing
    ELSE IF f[cur].kind = "gone" THEN Missing
    ELSE IF f[cur].kind = "link" THEN Walk[f, f[cur].target, segs]
    ELSE IF segs = <<>> THEN cur
    ELSE IF f[cur].kind # "dir" THEN Missing
    ELSE Walk[f, Join[cur, Head(segs)], Tail(segs)]

\* the entry an absolute path names, Missing when it names none
RealPath[f \in FsType, p \in Str] == Walk[f, P_Root, CleanAcc[Split[p], TRUE, <<>>]]

\* filepath.EvalSymlinks
EvalSymlinks[f \in FsType, p \in Str] == RealPath[f, p]

\* filepath.Base of a cleaned path
Base[p \in Str] == IF p = P_Root THEN p ELSE SubSeq(p, LastSlash[p] + 1, Len(p))

\* byte-wise string order
Less[a \in Str, b \in Str] ==
    IF b = <<>> THEN FALSE
    ELSE IF a = <<>> THEN TRUE
    ELSE IF Head(a) = Head(b) THEN Less[Tail(a), Tail(b)]
    ELSE Code(Head(a)) < Code(Head(b))

\* the least string of a non-empty set
Least[S \in SUBSET Str] == CHOOSE x \in S : \A y \in S \ {x} : Less[x, y]

SortNames[S \in SUBSET Str] ==
    IF S = {} THEN <<>> ELSE <<Least[S]>> \o SortNames[S \ {Least[S]}]

\* the paths of the immediate children of directory d
ChildPaths[f \in FsType, d \in Str] ==
    {p \in DOMAIN f : p # d /\ Dir[p] = d /\ f[p].kind \in {"file", "dir", "link"}}

\* the directory entries of d for the sorted names
DirEntries[f \in FsType, d \in Str, names \in StrSeq] ==
    [i \in DOMAIN names |->
        [name |-> names[i], isDir |-> f[Join[d, names[i]]].kind = "dir"]]

\* os.ReadDir: the entries of d sorted by name
ReadDir[f \in FsType, d \in Str] ==
    DirEntries[f, d, SortNames[{Base[p] : p \in ChildPaths[f, d]}]]

\* whether path p lies within directory root
Within(p, root) ==
    p = root \/ HasPrefix(p, IF root = P_Root THEN root ELSE root \o <<"/">>)

\* ------------------------------------------------------------------ state
VARIABLES
    phase,      \* main: "flags", "resolved" (root resolved), "listening"
    rootDir,    \* the global rootDir
    fs,         \* the file system
    pc,         \* per connection: where its handler invocation stands
    req,        \* per connection: the request received
    loc,        \* per connection: the handler's local variables
    hnd,        \* per connection: the file handles the invocation holds
    resp,       \* per connection: what was written to the ResponseWriter
    trace       \* per connection: log lines and effects, in order

vars == <<phase, rootDir, fs, pc, req, loc, hnd, resp, trace>>

\* the connections the server handles concurrently, one goroutine each,
\* named in the order their requests arrive
Conns == {"c1", "c2"}

Earlier(c) == IF c = "c2" THEN {"c1"} ELSE {}

Methods == {"GET", "CONNECT"}

\* values of the -dir flag
DirFlags == {P_Share, P_Link}

\* what clients type after the leading ".." elements: the shared directory
\* itself, its subdirectory with and without a trailing slash, the file in it,
\* a name the shared directory lacks, a path that climbs back, a climb written
\* with escaped dots, a target with a broken escape
Tails ==
    { <<>>, <<"a">>, <<"a", "/">>, <<"a", "/", "&">>, <<"&">>,
      <<"a", "/", ".", ".">>,
      <<"%", "2", "E", "%", "2", "E", "/", "&">>, <<"a", "%">> }

\* k times "../"
Ups[k \in Nat] == IF k = 0 THEN <<>> ELSE <<".", ".", "/">> \o Ups[k - 1]

\* the request targets clients type
Targets == {<<"/">> \o Ups[k] \o t : k \in 0..MaxUp, t \in Tails}

NoReq == [method |-> "", target |-> <<>>, expect |-> <<>>]

NoLoc == [reqPath |-> <<>>, cleanedPath |-> <<>>, fullPath |-> <<>>,
          open |-> "unset", stat |-> "unset", isDir |-> FALSE,
          size |-> 0, name |-> <<>>]

NoHnd == [main |-> "none", mainPath |-> <<>>, send |-> "none", sendPath |-> <<>>]

NoBody == [kind |-> "none", text |-> "", parents |-> <<>>, entries |-> <<>>,
           len |-> 0]

NoResp == [status |-> 0, location |-> <<>>, ctype |-> "", clen |-> -1, disp |-> <<>>,
           body |-> NoBody]

Init ==
    /\ phase = "flags"
    /\ rootDir \in DirFlags
    /\ fs = InitFs
    /\ pc = [c \in Conns |-> "idle"]
    /\ req = [c \in Conns |-> NoReq]
    /\ loc = [c \in Conns |-> NoLoc]
    /\ hnd = [c \in Conns |-> NoHnd]
    /\ resp = [c \in Conns |-> NoResp]
    /\ trace = [c \in Conns |-> <<>>]

\* ---------------------------------------------------------------- startup
\* main: rootDir = the flag's directory with symbolic links resolved
ResolveRoot ==
    /\ phase = "flags"
    /\ EvalSymlinks[fs, rootDir] # Missing
    /\ rootDir' = EvalSymlinks[fs, rootDir]
    /\ phase' = "resolved"
    /\ UNCHANGED <<fs, pc, req, loc, hnd, resp, trace>>

\* main: server.ListenAndServe
Listen ==
    /\ phase = "resolved"
    /\ phase' = "listening"
    /\ UNCHANGED <<rootDir, fs, pc, req, loc, hnd, resp, trace>>

\* ----------------------------------------------------------- the handler
\* http.Error
HttpError(text, code) ==
    [NoResp EXCEPT !.status = code, !.ctype = "text/plain; charset=utf-8",
                   !.body = [NoBody EXCEPT !.kind = "error", !.text = text \o "\n"]]

\* a mistaken status for an open failure
OpenFailureForbidden == HttpError("403 Forbidden", 403)

\* the response to a failed os.Open(fullPath)
OpenFailure == HttpError("404 Not Found", 404)

\* path sanitization: path, cleanedPath, fullPath
ResolvePath(root, reqPath) ==
    LET path == TrimPrefix(reqPath, <<"/">>)
        cleanedPath == Clean[path]
    IN  [cleanedPath |-> cleanedPath, fullPath |-> Join[root, cleanedPath]]

\* a handler that assigns the joined path to the global
RootOverwritten(root, fullPath) == fullPath

\* the handler reads rootDir and leaves it as it is
RootAfterRequest(root, fullPath) == root

\* a handler whose completion log is not deferred and is skipped by a return
CompletionLogSkipped(t, m, reqPath) == t

\* the deferred completion log
CompletionLog(t, m, reqPath) == Append(t, <<"COMPLETE", m, reqPath>>)

\* a handle that is never closed
CloseHandleForgotten(h) == h

\* os.File.Close on a handle in state h
CloseHandle(h) == IF h = "open" THEN "closed" ELSE "bad"

\* a read or stat on a handle in state h
UseHandle(h) == IF h = "open" THEN "open" ELSE "bad"

\* ServeMux (Go 1.22 and later) answers a request whose escaped path is not
\* canonical with a redirect itself, except for CONNECT requests, which reach
\* the handler as they are
Redirects(m, escapedPath) == m # "CONNECT" /\ CleanPath[escapedPath] # escapedPath

\* the characters of s as one string
StringOf[s \in Str] == IF s = <<>> THEN "" ELSE s[1] \o StringOf[Tail(s)]

\* URL.String of the URL{Path: path} the mux redirects to
RedirectTarget(path) == EscapePath[path]

\* http.Redirect on a url that starts with "/": the url cleaned, its trailing
\* slash kept
RedirectURL(url) ==
    IF url[Len(url)] = "/" /\ Clean[url] # <<"/">> THEN Clean[url] \o <<"/">>
    ELSE Clean[url]

\* http.Redirect with status 301: the Location header (every character of the
\* model is ASCII, which hexEscapeNonASCII keeps) and, for GET, a short page
Redirect(m, url) ==
    [NoResp EXCEPT
        !.status = 301,
        !.location = RedirectURL(url),
        !.ctype = IF m \in {"GET", "HEAD"} THEN "text/html; charset=utf-8" ELSE "",
        !.body = IF m = "GET"
                 THEN [NoBody EXCEPT
                         !.kind = "html",
                         !.text = "<a href=\"" \o StringOf[EscapeString[RedirectURL(url)]]
                                    \o "\">Moved Permanently</a>.\n\n"]
                 ELSE NoBody]

\* the server's answer to a request line it cannot parse
BadRequest ==
    [NoResp EXCEPT !.status = 400, !.ctype = "text/plain; charset=utf-8",
                   !.body = [NoBody EXCEPT !.kind = "error",
                                           !.text = "400 Bad Request"]]

\* a request with method m and target t arrives on connection c: the server
\* parses the target, the mux routes it, the handler logs it and computes fullPath
Serve(c, m, t, expect) ==
    /\ phase = "listening"
    /\ pc[c] = "idle"
    /\ \A d \in Earlier(c) : pc[d] # "idle"
    /\ LET p == PathUnescape[t]
           rp == ResolvePath(rootDir, p)
       IN  IF p = EscapeError
           THEN /\ pc' = [pc EXCEPT ![c] = "rejected"]
                /\ resp' = [resp EXCEPT ![c] = BadRequest]
                /\ UNCHANGED <<rootDir, req, loc, trace>>
           ELSE IF Redirects(m, EscapedPath(t, p))
           THEN /\ pc' = [pc EXCEPT ![c] = "redirected"]
                /\ resp' = [resp EXCEPT ![c] =
                       Redirect(m, RedirectTarget(CleanPath[EscapedPath(t, p)]))]
                /\ UNCHANGED <<rootDir, req, loc, trace>>
           ELSE /\ pc' = [pc EXCEPT ![c] = "open"]
                /\ req' = [req EXCEPT ![c] = [method |-> m, target |-> t,
                                              expect |-> expect]]
                /\ loc' = [loc EXCEPT ![c] =
                              [NoLoc EXCEPT !.reqPath = p,
                                            !.cleanedPath = rp.cleanedPath,
                                            !.fullPath = rp.fullPath]]
                /\ trace' = [trace EXCEPT ![c] = <<<<"REQUEST", m, p>>>>]
                /\ rootDir' = RootAfterRequest(rootDir, rp.fullPath)
                /\ UNCHANGED resp
    /\ UNCHANGED <<phase, fs, hnd>>

\* a client types a request
TypedRequest(c, m, t) == Serve(c, m, t, <<>>)

\* the server after the handler returned: a handler that wrote nothing and set
\* no status gets status 200 now
FinishRequest(t) ==
    IF \E i \in DOMAIN t : t[i][1] = "RESPONSE" THEN t
    ELSE Append(t, <<"RESPONSE", 200>>)

\* the handler returns: the deferred file.Close, then the deferred completion
\* log, then the server finishes the request
Return(c, r, h, events) ==
    /\ pc' = [pc EXCEPT ![c] = "done"]
    /\ resp' = [resp EXCEPT ![c] = r]
    /\ hnd' = [hnd EXCEPT ![c] =
                  IF h.main = "none" THEN h
                  ELSE [h EXCEPT !.main = CloseHandle(h.main)]]
    /\ trace' = [trace EXCEPT ![c] =
                  FinishRequest(
                    CompletionLog(trace[c] \o events
                                    \o (IF h.main = "none" THEN <<>>
                                        ELSE <<<<"CLOSE", "file">>>>),
                                  req[c].method, loc[c].reqPath))]

\* os.Open(fullPath); on failure 404 and return
OpenTarget(c) ==
    /\ pc[c] = "open"
    /\ LET real == RealPath[fs, loc[c].fullPath]
       IN  IF real = Missing
           THEN /\ loc' = [loc EXCEPT ![c].open = "err"]
                /\ Return(c, OpenFailure, hnd[c],
                          <<<<"RESPONSE", OpenFailure.status>>>>)
           ELSE /\ loc' = [loc EXCEPT ![c].open = "ok"]
                /\ hnd' = [hnd EXCEPT ![c].main = "open", ![c].mainPath = real]
                /\ pc' = [pc EXCEPT ![c] = "stat"]
                /\ UNCHANGED <<resp, trace>>
    /\ UNCHANGED <<phase, rootDir, fs, req>>

\* file.Stat(); on failure 500 and return
StatTarget(c, ok) ==
    /\ pc[c] = "stat"
    /\ LET h == [hnd[c] EXCEPT !.main = UseHandle(hnd[c].main)]
           e == fs[hnd[c].mainPath]
       IN  IF ~ok
           THEN /\ loc' = [loc EXCEPT ![c].stat = "err"]
                /\ Return(c, HttpError("500 Internal Server Error", 500), h,
                          <<<<"RESPONSE", 500>>>>)
           ELSE /\ loc' = [loc EXCEPT ![c].stat = "ok",
                                      ![c].isDir = (e.kind = "dir"),
                                      ![c].size = e.size,
                                      ![c].name = Base[loc[c].fullPath]]
                /\ hnd' = [hnd EXCEPT ![c] = h]
                /\ pc' = [pc EXCEPT ![c] = "dispatch"]
                /\ UNCHANGED <<resp, trace>>
    /\ UNCHANGED <<phase, rootDir, fs, req>>

\* the branch taken the wrong way round
DispatchInverted(isDir) == IF isDir THEN "sendFile" ELSE "listDir"

\* the branch on fileInfo.IsDir()
Dispatch(isDir) == IF isDir THEN "listDir" ELSE "sendFile"

\* listDir's template data for directory entries `files`
ListData(relPath, files) ==
    [RelPath |-> EscapeString[relPath],
     HasParent |-> relPath # <<>>,
     ParentPath |-> PathEscape[ToSlash[Dir[relPath]]],
     Files |-> [i \in DOMAIN files |->
                  [URL |-> PathEscape[ToSlash[Join[relPath, files[i].name]]],
                   Name |-> EscapeString[files[i].name],
                   IsDir |-> files[i].isDir,
                   child |-> files[i].name]]]

\* dirListTemplate executed on the data: the parent link, then one item per file
Render(data) ==
    [NoBody EXCEPT
        !.kind = "listing",
        !.parents = IF data.HasParent THEN <<HrefAttr[data.ParentPath]>> ELSE <<>>,
        !.entries = [i \in DOMAIN data.Files |->
                        [href |-> HrefAttr[data.Files[i].URL],
                         text |-> TextNode[data.Files[i].Name],
                         isDir |-> data.Files[i].IsDir,
                         child |-> data.Files[i].child]]]

\* the response listDir writes; ok is whether os.ReadDir succeeds
ListResponse(f, dirPath, relPath, ok) ==
    LET real == RealPath[f, dirPath]
    IN  IF ~ok \/ real = Missing \/ f[real].kind # "dir"
        THEN HttpError("403 Forbidden", 403)
        ELSE [NoResp EXCEPT !.status = 200,
                            !.ctype = "text/html; charset=utf-8",
                            !.body = Render(ListData(relPath, ReadDir[f, real]))]

\* listDir(w, r, fullPath, cleanedPath)
ListDir(c, ok) ==
    /\ pc[c] = "dispatch"
    /\ Dispatch(loc[c].isDir) = "listDir"
    /\ LET r == ListResponse(fs, loc[c].fullPath, loc[c].cleanedPath, ok)
       IN  Return(c, r, hnd[c], <<<<"CALL", "listDir">>, <<"RESPONSE", r.status>>>>)
    /\ UNCHANGED <<phase, rootDir, fs, req, loc>>

\* the headers sendFile sets before it streams
DownloadHeaders(fileName, fileSize) ==
    [NoResp EXCEPT !.disp = PathEscape[fileName],
                   !.ctype = "application/octet-stream",
                   !.clen = fileSize]

\* sendFile: os.Open(filePath) once more, then the download headers
SendFileOpen(c) ==
    /\ pc[c] = "dispatch"
    /\ Dispatch(loc[c].isDir) = "sendFile"
    /\ LET real == RealPath[fs, loc[c].fullPath]
       IN  IF real = Missing
           THEN Return(c, HttpError("404 Not Found", 404), hnd[c],
                       <<<<"CALL", "sendFile">>, <<"RESPONSE", 404>>>>)
           ELSE /\ hnd' = [hnd EXCEPT ![c].send = "open", ![c].sendPath = real]
                /\ resp' = [resp EXCEPT ![c] =
                               DownloadHeaders(loc[c].name, loc[c].size)]
                /\ trace' = [trace EXCEPT ![c] = Append(@, <<"CALL", "sendFile">>)]
                /\ pc' = [pc EXCEPT ![c] = "copy"]
    /\ UNCHANGED <<phase, rootDir, fs, req, loc>>

\* the bytes the ResponseWriter accepts from one Write of `avail` bytes when
\* Content-Length `declared` was set: a Write beyond it fails with ErrContentLength
BodyWritten(declared, avail) == IF avail > declared THEN 0 ELSE avail

\* what io.Copy(w, file) does on a file holding `avail` bytes: nothing when the
\* file is empty (no Write, so no status is written); otherwise one Write, which
\* writes status 200 first and fails when the bytes exceed the declared length
CopyEvents(declared, avail) ==
    IF avail = 0 THEN <<>>
    ELSE <<<<"RESPONSE", 200>>>>
           \o (IF BodyWritten(declared, avail) # avail
               THEN <<<<"LOG", "File transfer error">>>> ELSE <<>>)

\* sendFile: io.Copy(w, file), the deferred Close, and the handler's return
SendFileCopy(c) ==
    /\ pc[c] = "copy"
    /\ LET avail == fs[hnd[c].sendPath].size
           n == BodyWritten(resp[c].clen, avail)
           h == [hnd[c] EXCEPT !.send = CloseHandle(UseHandle(hnd[c].send))]
           r == [resp[c] EXCEPT !.status = 200,
                                !.body = [NoBody EXCEPT !.kind = "file", !.len = n]]
       IN  Return(c, r, h,
                  CopyEvents(resp[c].clen, avail) \o <<<<"CLOSE", "sendFile">>>>)
    /\ UNCHANGED <<phase, rootDir, fs, req, loc>>

\* ----------------------------------------------------------------- clients
\* a client follows link i of the listing it received on connection c0: the
\* parent link (i = 0) or the link of entry i
FollowLink(c, c0, i) ==
    /\ pc[c0] = "done"
    /\ resp[c0].body.kind = "listing"
    /\ LET b == resp[c0].body
           here == loc[c0].fullPath
       IN  /\ i = 0 => b.parents # <<>> /\ here # rootDir
           /\ i # 0 => i \in DOMAIN b.entries
           /\ LET attr == IF i = 0 THEN b.parents[1] ELSE b.entries[i].href
                  want == IF i = 0 THEN Dir[here] ELSE Join[here, b.entries[i].child]
              IN  Serve(c, "GET", ResolveReference[req[c0].target, HtmlUnescape[attr]],
                        want)

\* ------------------------------------------------ other programs on the tree
\* another program rewrites the served file in place
EnvWrite(n) ==
    /\ fs[P_File].kind = "file"
    /\ fs[P_File].size # n
    /\ fs' = [fs EXCEPT ![P_File] = FileEnt(n)]
    /\ UNCHANGED <<phase, rootDir, pc, req, loc, hnd, resp, trace>>

\* another program removes the served file
EnvRemove ==
    /\ fs[P_File].kind = "file"
    /\ fs' = [fs EXCEPT ![P_File] = GoneEnt(fs[P_File].size)]
    /\ UNCHANGED <<phase, rootDir, pc, req, loc, hnd, resp, trace>>

\* ----------------------------------------------------------- specifications
Startup == ResolveRoot \/ Listen

Arrive ==
    \/ \E c \in Conns, m \in Methods, t \in Targets : TypedRequest(c, m, t)
    \/ \E c \in Conns, c0 \in Conns, i \in 0..Cardinality(FsPaths) : FollowLink(c, c0, i)

\* the steps of the handler invocation on connection c
HandleConn(c) ==
    \/ OpenTarget(c)
    \/ \E ok \in BOOLEAN : StatTarget(c, ok)
    \/ \E ok \in BOOLEAN : ListDir(c, ok)
    \/ SendFileOpen(c)
    \/ SendFileCopy(c)

Handle == \E c \in Conns : HandleConn(c)

Env == (\E n \in 0..MaxSize : EnvWrite(n)) \/ EnvRemove

Next == Startup \/ Arrive \/ Handle \/ Env

Spec == Init /\ [][Next]_vars

\* the server on a tree nothing else touches
NextStatic == Startup \/ Arrive \/ Handle

SpecStatic == Init /\ [][NextStatic]_vars

\* every handler goroutine that can take a step eventually takes one
FairSpec == Spec /\ \A c \in Conns : WF_vars(HandleConn(c))

\* ------------------------------------------------------------- properties
\* the connections whose request entered the root handler
Entered(c) == pc[c] \notin {"idle", "rejected", "redirected"}

InFlight(c) == pc[c] \in {"open", "stat", "dispatch", "copy"}

\* the events of trace t whose first field is ev
Events(t, ev) == SelectSeq(t, LAMBDA e : e[1] = ev)

\* the functions the handler called, in order
Calls(c) == [i \in DOMAIN Events(trace[c], "CALL") |-> Events(trace[c], "CALL")[i][2]]

\* C1: every path the handler resolves lies within rootDir, or the request is
\* denied without the handler having opened anything
C1_ResolvedWithinRoot ==
    \A c \in Conns :
        Entered(c) =>
            \/ Within(loc[c].fullPath, rootDir)
            \/ /\ hnd[c].main = "none"
               /\ hnd[c].send = "none"
               /\ pc[c] = "done" => resp[c].status = 404

\* C2: the listing of rootDir has no parent link, the listing of every other
\* directory has exactly one
C2_ParentLink ==
    \A c \in Conns :
        (pc[c] = "done" /\ resp[c].body.kind = "listing"
           /\ Within(loc[c].fullPath, rootDir)) =>
            Len(resp[c].body.parents) = (IF loc[c].fullPath = rootDir THEN 0 ELSE 1)

\* C3: a request that found a regular file of size N answers 200 with
\* Content-Length N and a body of N bytes, whatever else happens on the tree
C3_ContentLength ==
    \A c \in Conns :
        (pc[c] = "done" /\ loc[c].stat = "ok" /\ ~loc[c].isDir) =>
            /\ resp[c].status = 200
            /\ resp[c].clen = loc[c].size
            /\ resp[c].body.kind = "file"
            /\ resp[c].body.len = loc[c].size

\* C4: when opening the resolved path fails the handler answers 404, writes
\* neither a listing nor a file body, and calls neither listDir nor sendFile
C4_NotFound ==
    \A c \in Conns :
        (pc[c] = "done" /\ loc[c].open = "err") =>
            /\ resp[c].status = 404
            /\ resp[c].body.kind = "error"
            /\ Calls(c) = <<>>
            /\ loc[c].stat = "unset"

C4_Witness ==
    \E c \in Conns :
        pc[c] = "done" /\ loc[c].open = "err" /\ RealPath[fs, loc[c].fullPath] = Missing

\* C5: a directory's listing answers 200 with one entry per immediate child,
\* each name escaped exactly once (decoding it once gives the name back and no
\* reserved character is left in it) and each link the escaped relative path
C5_Listing ==
    \A c \in Conns :
        (pc[c] = "done" /\ resp[c].body.kind = "listing") =>
            LET es == resp[c].body.entries
                kids == ChildPaths[fs, RealPath[fs, loc[c].fullPath]]
            IN  /\ resp[c].status = 200
                /\ Len(es) = Cardinality(kids)
                /\ {es[i].child : i \in DOMAIN es} = {Base[k] : k \in kids}
                /\ \A i \in DOMAIN es :
                      /\ HtmlUnescape[es[i].text] = es[i].child
                      /\ \A j \in DOMAIN es[i].text :
                            es[i].text[j] \notin {"<", ">", "\"", "'"}
                      /\ HtmlUnescape[es[i].href]
                            = PathEscape[Join[loc[c].cleanedPath, es[i].child]]

\* the response to target t of a handler that runs alone on tree f
Alone(root, f, t, statOk, readOk) ==
    LET rp == ResolvePath(root, PathUnescape[t])
        real == RealPath[f, rp.fullPath]
    IN  IF real = Missing THEN HttpError("404 Not Found", 404)
        ELSE IF ~statOk THEN HttpError("500 Internal Server Error", 500)
        ELSE IF f[real].kind = "dir"
        THEN ListResponse(f, rp.fullPath, rp.cleanedPath, readOk)
        ELSE [DownloadHeaders(Base[rp.fullPath], f[real].size)
                 EXCEPT !.status = 200,
                        !.body = [NoBody EXCEPT !.kind = "file",
                                                !.len = f[real].size]]

C6_SameAsAlone ==
    \A c \in Conns :
        pc[c] = "done" =>
            resp[c] = Alone(rootDir, fs, req[c].target,
                            loc[c].stat # "err", resp[c].status # 403)

\* C6: whatever the interleaving, each request's response is the one it gets
\* when it runs alone, and rootDir is never written once the server listens
C6_Independent ==
    /\ []C6_SameAsAlone
    /\ [][phase = "listening" => rootDir' = rootDir]_vars

C6_Witness ==
    \E c, d \in Conns :
        /\ pc[c] = "copy" /\ pc[d] = "done"
        /\ resp[d].body.kind = "listing"
        /\ loc[c].fullPath # loc[d].fullPath
        /\ hnd[d].main = "closed" /\ hnd[c].main = "open"

\* C7: a handled request ends in one outcome, fixed by the results of open,
\* stat and IsDir in that order: a directory is never streamed, a file never listed
C7_Outcome ==
    \A c \in Conns :
        pc[c] = "done" =>
            /\ Len(Events(trace[c], "RESPONSE")) = 1
            /\ loc[c].open \in {"ok", "err"}
            /\ loc[c].open = "err" =>
                  loc[c].stat = "unset" /\ resp[c].status = 404 /\ Calls(c) = <<>>
            /\ loc[c].open = "ok" => loc[c].stat \in {"ok", "err"}
            /\ loc[c].stat = "err" => resp[c].status = 500 /\ Calls(c) = <<>>
            /\ (loc[c].stat = "ok" /\ loc[c].isDir) =>
                  /\ Calls(c) = <<"listDir">>
                  /\ resp[c].status \in {200, 403}
                  /\ resp[c].body.kind \in {"listing", "error"}
            /\ (loc[c].stat = "ok" /\ ~loc[c].isDir) =>
                  /\ Calls(c) = <<"sendFile">>
                  /\ resp[c].status \in {200, 404}
                  /\ resp[c].body.kind \in {"file", "error"}

C7_Witness ==
    \E c, d \in Conns :
        /\ pc[c] = "done" /\ loc[c].isDir /\ resp[c].body.kind = "listing"
        /\ pc[d] = "done" /\ loc[d].stat = "ok" /\ ~loc[d].isDir
        /\ resp[d].body.kind = "file"

\* the log of connection c is well formed
LogOk(c) ==
    LET t == trace[c]
        done == Events(t, "COMPLETE")
    IN  /\ Entered(c) =>
              /\ t # <<>>
              /\ t[1] = <<"REQUEST", req[c].method, loc[c].reqPath>>
              /\ Len(Events(t, "REQUEST")) = 1
        /\ Len(done) = (IF pc[c] = "done" THEN 1 ELSE 0)
        /\ Len(done) = 1 =>
              /\ t[Len(t)] = <<"COMPLETE", req[c].method, loc[c].reqPath>>
              /\ \E i \in 1..(Len(t) - 1) : t[i][1] = "RESPONSE"

\* C8 as claimed: a request that enters the handler is logged once at the start
\* and is eventually followed by exactly one completion log with its method and
\* path, on every exit path and never before its response
C8_Logging ==
    /\ [](\A c \in Conns : LogOk(c))
    /\ \A c \in Conns :
          Entered(c) ~> (pc[c] = "done" /\ Len(Events(trace[c], "COMPLETE")) = 1)

\* the handler of connection c wrote to the ResponseWriter: every exit path
\* but a download whose copy found no byte to write
HandlerWrote(c) ==
    ~(/\ resp[c].body.kind = "file" /\ resp[c].body.len = 0
      /\ Events(trace[c], "LOG") = <<>>)

\* the log of connection c is well formed, the completion log following the
\* response when the handler wrote one and preceding the server's status 200
\* when it wrote none
LogOkWritten(c) ==
    LET t == trace[c]
        done == Events(t, "COMPLETE")
    IN  /\ Entered(c) =>
              /\ t # <<>>
              /\ t[1] = <<"REQUEST", req[c].method, loc[c].reqPath>>
              /\ Len(Events(t, "REQUEST")) = 1
        /\ Len(done) = (IF pc[c] = "done" THEN 1 ELSE 0)
        /\ Len(done) = 1 =>
              /\ done[1] = <<"COMPLETE", req[c].method, loc[c].reqPath>>
              /\ Len(Events(t, "RESPONSE")) = 1
              /\ IF HandlerWrote(c)
                 THEN /\ t[Len(t)] = done[1]
                      /\ \E i \in 1..(Len(t) - 1) : t[i][1] = "RESPONSE"
                 ELSE /\ t[Len(t) - 1] = done[1]
                      /\ t[Len(t)] = <<"RESPONSE", 200>>

\* C8 as amended: a request that enters the handler is logged once at the start
\* and is eventually followed by exactly one completion log with its method and
\* path, on every exit path; the completion log never precedes a response the
\* handler writes, and when a download copies no byte the handler writes
\* nothing and status 200 follows the completion log
C8_LoggingWritten ==
    /\ [](\A c \in Conns : LogOkWritten(c))
    /\ \A c \in Conns :
          Entered(c) ~> (pc[c] = "done" /\ Len(Events(trace[c], "COMPLETE")) = 1)

C8_Witness ==
    \E c, d \in Conns :
        /\ pc[c] = "done" /\ ~HandlerWrote(c) /\ Calls(c) = <<"sendFile">>
        /\ trace[c][Len(trace[c])] = <<"RESPONSE", 200>>
        /\ Len(Events(trace[c], "COMPLETE")) = 1
        /\ pc[d] = "done" /\ resp[d].status = 404 /\ Calls(d) = <<"sendFile">>
        /\ Len(Events(trace[d], "COMPLETE")) = 1

\* the handles the server holds
OpenHandles ==
    Cardinality({c \in Conns : hnd[c].main = "open"})
      + Cardinality({c \in Conns : hnd[c].send = "open"})

\* C9: every handle an invocation opens is closed exactly once before it returns,
\* none is used after its close, and no handle is held when nothing is in flight
C9_Handles ==
    /\ \A c \in Conns :
          /\ hnd[c].main # "bad" /\ hnd[c].send # "bad"
          /\ ~InFlight(c) => hnd[c].main # "open" /\ hnd[c].send # "open"
          /\ Len(SelectSeq(trace[c], LAMBDA e : e = <<"CLOSE", "file">>)) =
                (IF hnd[c].main = "closed" THEN 1 ELSE 0)
          /\ Len(SelectSeq(trace[c], LAMBDA e : e = <<"CLOSE", "sendFile">>)) =
                (IF hnd[c].send = "closed" THEN 1 ELSE 0)
    /\ (\A c \in Conns : ~InFlight(c)) => OpenHandles = 0

C9_Witness ==
    \E c, d \in Conns :
        /\ pc[c] = "done" /\ hnd[c].main = "closed" /\ hnd[c].send = "closed"
        /\ pc[d] = "done" /\ hnd[d].main = "closed" /\ resp[d].status = 500

\* C10: following a link of a listing makes the handler resolve the file the
\* link stands for: the child for an entry's link, the parent for the parent link
C10_LinksNavigate ==
    \A c \in Conns :
        (Entered(c) /\ req[c].expect # <<>>) => loc[c].fullPath = req[c].expect

====
